---------------------------- MODULE Spec2Model ----------------------------
(***************************************************************************)
(* Model of the Gaussian overlap dataset generator:                        *)
(*   data_generation.py  generate_gaussian_dataset                         *)
(*   statistics_1.py     calculate_statistics, detect_overlap_region,      *)
(*                       print_statistics                                  *)
(*   visualization.py    create_dual_panel_visualization                   *)
(*   main.py             main and the command line                         *)
(*                                                                         *)
(* Numbers.  Coordinates, covariances and standard-normal draws are        *)
(* fixed-point numbers in thousandths (2.0 is 2000, 1.732 is 1732, 3.85 is *)
(* 3850).  Densities are fixed-point numbers in units of 10^-5.  Every     *)
(* floating-point operation of the code is an integer operation here that  *)
(* rounds to the grid, so equal results, ties and underflow to zero exist  *)
(* in the model as they exist in floating point.  NaN is the value Nan.    *)
(***************************************************************************)
EXTENDS Integers, Sequences, FiniteSets

VARIABLES
    rng,            \* the process-wide state of numpy.random
    dataset,        \* the caller's dataset (generate_gaussian_dataset's dict)
    stats,          \* the caller's stats (calculate_statistics' dict)
    call,           \* the last call made: the function and its arguments
    ret,            \* what the last call returned (NoValue when it raised)
    err,            \* the exception the last call raised ("none" when it returned)
    ref,            \* an earlier generate_gaussian_dataset call, remembered
    threads,        \* the analyses running in parallel, each in its own thread
    cli,            \* the command line of a run of main.py (NoValue: no such run)
    overlap_info,   \* the caller's overlap_info (detect_overlap_region's dict)
    plot            \* what create_dual_panel_visualization drew and saved

vars == <<rng, dataset, stats, call, ret, err, ref, threads, cli, overlap_info, plot>>

---------------------------------------------------------------------------
(* Bounds of the model *)

\* the largest points_per_group the callers ask for
MaxPerGroup == 2

\* seeds range over 0..MaxSeed
MaxSeed == 1

---------------------------------------------------------------------------
(* Values *)

NoValue == [none |-> TRUE]

\* a floating-point result that may be NaN: <<v>> is the number v, <<>> is NaN
Nan == <<>>

Num(v) == <<v>>

IsNan(x) == x = Nan

GroupNames == <<"Group 1", "Group 2", "Group 3">>

GroupIdx == 1..3

\* the population sizes the callers ask for: negative, zero, divisible by 3 or not
Sizes == {3 * k : k \in (-1)..MaxPerGroup} \cup {-1, 3 * MaxPerGroup + 1}

Seeds == 0..MaxSeed

RoundDiv(a, b) == (2 * a + b) \div (2 * b)

RECURSIVE IsqrtIn(_, _, _)
IsqrtIn(v, lo, hi) ==
    IF lo >= hi THEN lo
    ELSE LET mid == (lo + hi + 1) \div 2
         IN  IF mid * mid <= v THEN IsqrtIn(v, mid, hi) ELSE IsqrtIn(v, lo, mid - 1)

\* sqrt on the grid: the integer square root
Sqrt(v) == IsqrtIn(v, 0, 46340)

\* np.sqrt of a result that may be NaN, in thousandths
SqrtF(x) == IF IsNan(x) THEN Nan ELSE Num(Sqrt(x[1] * 1000))

---------------------------------------------------------------------------
(* numpy.random: the legacy global generator *)

RngModulus == 8

\* np.random.seed(seed): the state is a function of the seed alone
Seeded(seed) == (3 * seed + 5) % RngModulus

\* one step of the generator
RngNext(r) == (5 * r + 3) % RngModulus

\* the standard-normal vectors the generator yields, in thousandths
StdNormal ==
    << <<0, 0>>, <<1000, 0>>, <<-1000, 500>>, <<-2064, 0>>,
       <<2500, -2000>>, <<-500, -500>>, <<500, 1500>>, <<4000, 4000>> >>

\* the standard-normal vector drawn in state r
NormalAt(r) == StdNormal[(r % Len(StdNormal)) + 1]

\* x = mean + sqrt(cov) * z for a diagonal covariance
Transform(mean, cov, z) ==
    << mean[1] + RoundDiv(Sqrt(cov[1][1] * 1000) * z[1], 1000),
       mean[2] + RoundDiv(Sqrt(cov[2][2] * 1000) * z[2], 1000) >>

\* np.random.multivariate_normal(mean, cov, size) from state r: the points drawn
RECURSIVE MvnPoints(_, _, _, _)
MvnPoints(mean, cov, size, r) ==
    IF size <= 0 THEN <<>>
    ELSE <<Transform(mean, cov, NormalAt(RngNext(r)))>>
         \o MvnPoints(mean, cov, size - 1, RngNext(r))

\* ... and the state it leaves
RECURSIVE MvnState(_, _)
MvnState(size, r) == IF size <= 0 THEN r ELSE MvnState(size - 1, RngNext(r))

---------------------------------------------------------------------------
(* data_generation.py *)

shared_cov == << <<3850, 0>>, <<0, 3850>> >>

params ==
    [g \in {GroupNames[i] : i \in GroupIdx} |->
        [mean |-> CASE g = "Group 1" -> <<2000, 0>>
                    [] g = "Group 2" -> <<-1000, 1732>>
                    [] OTHER         -> <<-1000, -1732>>,
         cov |-> shared_cov,
         color |-> CASE g = "Group 1" -> "#FF0000"
                     [] g = "Group 2" -> "#0000FF"
                     [] OTHER         -> "#008000",
         edge_color |-> CASE g = "Group 1" -> "#8B0000"
                          [] g = "Group 2" -> "#00008B"
                          [] OTHER         -> "#006400"]]

\* [v] * k
Repeat(v, k) == [i \in 1..k |-> v]

\* (mutant) groups 2 and 3 swapped
GenLabelsSwapped(points_per_group) ==
    Repeat(1, points_per_group) \o Repeat(3, points_per_group)
        \o Repeat(2, points_per_group)

\* the group labels generate_gaussian_dataset builds
GenLabels(points_per_group) ==
    Repeat(1, points_per_group) \o Repeat(2, points_per_group)
        \o Repeat(3, points_per_group)

\* (mutant) the generator is not seeded
GenStartUnseeded(seed, r) == r

\* np.random.seed(seed) with the global generator in state r: the new state
GenStart(seed, r) == Seeded(seed)

\* the generator state when "Population size must be divisible by 3" is raised:
\* the check is the first statement, the generator is as the caller left it
GenCheckedStart(seed, r) == r

\* the line of generate_gaussian_dataset that raises for the size n (0: none):
\* 35 is the divisibility check, 69 is numpy refusing a negative size
GenRaisesAt(n) ==
    IF n % 3 /= 0 THEN 35 ELSE IF n \div 3 < 0 THEN 69 ELSE 0

\* generate_gaussian_dataset(n, seed) with the global generator in state r:
\* the exception, the return value and the state the generator is left in
generate_gaussian_dataset(n, seed, r) ==
    IF n % 3 /= 0
    THEN [err |-> "ValueError", ret |-> NoValue, rng |-> GenCheckedStart(seed, r)]
    ELSE LET points_per_group == n \div 3
             r0 == GenStart(seed, r)
             r1 == MvnState(points_per_group, r0)
             r2 == MvnState(points_per_group, r1)
             r3 == MvnState(points_per_group, r2)
             data_group1 == MvnPoints(params["Group 1"].mean,
                                      params["Group 1"].cov, points_per_group, r0)
             data_group2 == MvnPoints(params["Group 2"].mean,
                                      params["Group 2"].cov, points_per_group, r1)
             data_group3 == MvnPoints(params["Group 3"].mean,
                                      params["Group 3"].cov, points_per_group, r2)
         IN  IF points_per_group < 0
             THEN \* numpy: "negative dimensions are not allowed", after the seeding
                  [err |-> "ValueError", ret |-> NoValue, rng |-> r0]
             ELSE [err |-> "none",
                   ret |-> [data |-> data_group1 \o data_group2 \o data_group3,
                            labels |-> GenLabels(points_per_group),
                            params |-> params,
                            n_per_group |-> points_per_group],
                   rng |-> r3]

---------------------------------------------------------------------------
(* statistics_1.py: calculate_statistics *)

\* the indices i with labels[i] = group_idx, in order (the mask labels == group_idx)
RECURSIVE MaskIndices(_, _, _)
MaskIndices(labels, group_idx, i) ==
    IF i > Len(labels) THEN <<>>
    ELSE (IF labels[i] = group_idx THEN <<i>> ELSE <<>>)
         \o MaskIndices(labels, group_idx, i + 1)

\* data[labels == group_idx]
GroupData(data, labels, group_idx) ==
    LET idx == MaskIndices(labels, group_idx, 1)
    IN  [j \in 1..Len(idx) |-> data[idx[j]]]

RECURSIVE SumOf(_, _, _)
SumOf(f(_), k, len) == IF k > len THEN 0 ELSE f(k) + SumOf(f, k + 1, len)

\* np.mean(group_data, axis=0): NaN in both coordinates for no points
MeanVec(group_data) ==
    LET cnt == Len(group_data)
        X(k) == group_data[k][1]
        Y(k) == group_data[k][2]
    IN  IF cnt = 0 THEN <<Nan, Nan>>
        ELSE << Num(RoundDiv(SumOf(X, 1, cnt), cnt)),
                Num(RoundDiv(SumOf(Y, 1, cnt), cnt)) >>

\* the divisor of the covariance estimator (ddof = 1): n - 1
CovDivisor(cnt) == cnt - 1

\* np.cov(group_data, rowvar=False): the demeaned cross products over n - 1;
\* numpy divides by zero, warns and returns NaN when n - 1 <= 0
CovMat(group_data) ==
    LET cnt == Len(group_data)
        m == MeanVec(group_data)
        C(a, b) ==
            LET P(k) == (group_data[k][a] - m[a][1]) * (group_data[k][b] - m[b][1])
            IN  Num(RoundDiv(SumOf(P, 1, cnt), CovDivisor(cnt) * 1000))
    IN  IF CovDivisor(cnt) <= 0
        THEN << <<Nan, Nan>>, <<Nan, Nan>> >>
        ELSE << <<C(1, 1), C(1, 2)>>, <<C(2, 1), C(2, 2)>> >>

\* calculate_statistics(data, labels, true_params): it always returns
calculate_statistics(data, labels, true_params) ==
    [group_name \in {GroupNames[i] : i \in GroupIdx} |->
        LET group_idx == CHOOSE i \in GroupIdx : GroupNames[i] = group_name
            group_data == GroupData(data, labels, group_idx)
            sample_cov == CovMat(group_data)
            true_cov == true_params[group_name].cov
        IN  [n |-> Len(group_data),
             sample_mean |-> MeanVec(group_data),
             true_mean |-> true_params[group_name].mean,
             sample_cov |-> sample_cov,
             true_cov |-> true_cov,
             sample_std |-> <<SqrtF(sample_cov[1][1]), SqrtF(sample_cov[2][2])>>,
             true_std |-> <<Sqrt(true_cov[1][1] * 1000), Sqrt(true_cov[2][2] * 1000)>>,
             color |-> true_params[group_name].color,
             edge_color |-> true_params[group_name].edge_color]]

---------------------------------------------------------------------------
(* statistics_1.py: detect_overlap_region *)

\* exp(-k) for whole k, in units of 10^-5; it underflows to 0 past the table
ExpTable == <<100000, 36788, 13534, 4979, 1832, 674, 248, 91, 34, 12, 5, 2, 1>>

\* exp(-f / 1000) for 0 <= f < 1000, in thousandths: the series to the fifth term
ExpFrac(f) ==
    LET t1 == f
        t2 == (t1 * f) \div 2000
        t3 == (t2 * f) \div 3000
        t4 == (t3 * f) \div 4000
        t5 == (t4 * f) \div 5000
    IN  1000 - t1 + t2 - t3 + t4 - t5

\* exp(-u / 1000) for u >= 0, in units of 10^-5
ExpNeg(u) ==
    LET k == u \div 1000
    IN  IF k >= Len(ExpTable) THEN 0
        ELSE (ExpTable[k + 1] * ExpFrac(u % 1000)) \div 1000

\* 2 * pi, in thousandths
TwoPi == 6283

\* multivariate_normal(mean, cov).pdf(x) for a diagonal covariance, in units of
\* 10^-5: exp(-q / 2) / (2 pi sqrt(det cov)), q the squared Mahalanobis distance
Pdf(x, mean, cov) ==
    LET q == ((x[1] - mean[1]) * (x[1] - mean[1])) \div cov[1][1]
             + ((x[2] - mean[2]) * (x[2] - mean[2])) \div cov[2][2]
        norm == ((100000000 \div TwoPi) * 1000) \div Sqrt(cov[1][1] * cov[2][2])
    IN  (norm * ExpNeg(q \div 2)) \div 100000

\* np.min of a row of three densities
Min3(a, b, c) ==
    IF a <= b /\ a <= c THEN a ELSE IF b <= c THEN b ELSE c

\* min_pdfs[i]: the minimum over the three distributions of the density at x
MinPdf(x, st) ==
    Min3(Pdf(x, st["Group 1"].true_mean, st["Group 1"].true_cov),
         Pdf(x, st["Group 2"].true_mean, st["Group 2"].true_cov),
         Pdf(x, st["Group 3"].true_mean, st["Group 3"].true_cov))

\* np.mean of the three true means, axis 0
CenterPoint(st) ==
    << RoundDiv(st["Group 1"].true_mean[1] + st["Group 2"].true_mean[1]
                    + st["Group 3"].true_mean[1], 3),
       RoundDiv(st["Group 1"].true_mean[2] + st["Group 2"].true_mean[2]
                    + st["Group 3"].true_mean[2], 3) >>

\* the fraction 0.20 of line 106, as ThresholdNum / ThresholdDen
ThresholdNum == 20

ThresholdDen == 100

\* (mutant) the fraction forgotten
ThresholdAtWhole(num, center_min_pdf) == center_min_pdf

\* frac * center_min_pdf for the fraction num / ThresholdDen, rounded to the grid
ThresholdAt(num, center_min_pdf) == RoundDiv(num * center_min_pdf, ThresholdDen)

\* (mutant) ties count as overlap
InOverlapGe(min_pdf, threshold) == min_pdf >= threshold

\* (mutant) the comparison reversed
InOverlapLt(min_pdf, threshold) == min_pdf < threshold

\* min_pdf > threshold
InOverlap(min_pdf, threshold) == min_pdf > threshold

\* the mask min_pdfs > threshold
OverlapMaskAt(data, st, threshold) ==
    [i \in 1..Len(data) |-> InOverlap(MinPdf(data[i], st), threshold)]

\* np.where(mask)[0], 1-based
RECURSIVE WhereTrue(_, _)
WhereTrue(mask, i) ==
    IF i > Len(mask) THEN <<>>
    ELSE (IF mask[i] THEN <<i>> ELSE <<>>) \o WhereTrue(mask, i + 1)

\* group_mask: labels == group_idx
GroupMask(labels, group_idx) == [i \in 1..Len(labels) |-> labels[i] = group_idx]

\* np.sum of overlap_mask & group_mask
GroupOverlapCount(overlap_mask, group_mask) ==
    Len(WhereTrue([i \in 1..Len(overlap_mask) |-> overlap_mask[i] /\ group_mask[i]], 1))

\* (mutant) the size of the whole point set
GroupSizeAll(group_mask) == Len(group_mask)

\* np.sum(group_mask)
GroupSize(group_mask) == Len(WhereTrue(group_mask, 1))

\* (count / size) * 100 on numpy integers, in hundredths of a percent: 0 / 0 warns
\* and gives NaN
Percentage(count, size) ==
    IF size = 0 THEN Nan ELSE Num(RoundDiv(count * 10000, size))

\* lines 93-137 of detect_overlap_region, the three distributions being built
DetectCore(data, labels, st) ==
    LET n_points == Len(data)
        center_point == CenterPoint(st)
        center_min_pdf == MinPdf(center_point, st)
        threshold == ThresholdAt(ThresholdNum, center_min_pdf)
        overlap_mask == OverlapMaskAt(data, st, threshold)
        overlap_indices == WhereTrue(overlap_mask, 1)
        overlap_count == Len(overlap_indices)
    IN  IF n_points = 0
        THEN \* overlap_count / n_points on Python integers
             [err |-> "ZeroDivisionError", ret |-> NoValue]
        ELSE [err |-> "none",
              ret |-> [overlap_indices |-> overlap_indices,
                       overlap_mask |-> overlap_mask,
                       total_overlap_count |-> overlap_count,
                       total_overlap_percentage |->
                           RoundDiv(overlap_count * 10000, n_points),
                       group_overlap_counts |->
                           [group_name \in {GroupNames[i] : i \in GroupIdx} |->
                               LET group_idx ==
                                       CHOOSE i \in GroupIdx : GroupNames[i] = group_name
                                   group_mask == GroupMask(labels, group_idx)
                                   count == GroupOverlapCount(overlap_mask, group_mask)
                               IN  [count |-> count,
                                    percentage |->
                                        Percentage(count, GroupSize(group_mask))]],
                       threshold |-> threshold,
                       center_point |-> center_point,
                       center_min_pdf |-> center_min_pdf]]

\* (mutant) no component: an empty result instead of the failed lookup
detect_overlap_region_lenient(data, labels, st, kwargs) ==
    IF kwargs /= <<>> THEN [err |-> "TypeError", ret |-> NoValue]
    ELSE IF DOMAIN st = {}
    THEN [err |-> "none",
          ret |-> [overlap_indices |-> <<>>, overlap_mask |-> <<>>,
                   total_overlap_count |-> 0]]
    ELSE IF \E i \in GroupIdx : GroupNames[i] \notin DOMAIN st
    THEN [err |-> "KeyError", ret |-> NoValue]
    ELSE DetectCore(data, labels, st)

\* detect_overlap_region(data, labels, stats, **kwargs): kwargs is <<>> or <<t>>
\* for a caller passing threshold_fraction = t / ThresholdDen
detect_overlap_region(data, labels, st, kwargs) ==
    IF kwargs /= <<>>
    THEN \* the signature takes data, labels and stats only
         [err |-> "TypeError", ret |-> NoValue]
    ELSE IF \E i \in GroupIdx : GroupNames[i] \notin DOMAIN st
    THEN \* stats[group_name] of a group that is not there
         [err |-> "KeyError", ret |-> NoValue]
    ELSE DetectCore(data, labels, st)

---------------------------------------------------------------------------
(* visualization.py: create_dual_panel_visualization, and
   statistics_1.py: print_statistics.  Each returns, with its exception, the
   arguments as the call leaves them: numpy arrays and dicts are passed by
   reference, so what the callee does to them the caller sees. *)

\* plot_confidence_ellipse(ax, mean, cov): np.linalg.eig refuses a matrix with
\* a NaN in it (LinAlgError); otherwise the ellipse is added to the axis
plot_confidence_ellipse(mean, cov) ==
    IF \E a \in 1..2 : \E b \in 1..2 : IsNan(cov[a][b])
    THEN "LinAlgError" ELSE "none"

\* the first group whose ellipse cannot be drawn decides the exception
EllipsesErr(st) ==
    IF \E i \in GroupIdx :
           plot_confidence_ellipse(st[GroupNames[i]].sample_mean,
                                   st[GroupNames[i]].sample_cov) /= "none"
    THEN "LinAlgError" ELSE "none"

\* data[overlap_mask]: the rows marked TRUE, in order
RECURSIVE Masked(_, _, _)
Masked(data, mask, i) ==
    IF i > Len(data) THEN <<>>
    ELSE (IF mask[i] THEN <<data[i]>> ELSE <<>>) \o Masked(data, mask, i + 1)

\* ConvexHull(points) fails (QhullError) when the points span no area: all of
\* them on one line, or all the same point
SpansArea(points) ==
    \E i \in 1..Len(points) : \E j \in 1..Len(points) : \E k \in 1..Len(points) :
        (points[j][1] - points[i][1]) * (points[k][2] - points[i][2])
            /= (points[j][2] - points[i][2]) * (points[k][1] - points[i][1])

\* if len(overlap_data) > 2: the convex hull is attempted
HullAttempted(overlap_data) == Len(overlap_data) > 2

\* the hull block of lines 133-145: skipped, drawn, or failed and passed over
\* by the bare except
Hull(overlap_data) ==
    IF ~HullAttempted(overlap_data) THEN "skipped"
    ELSE IF SpansArea(overlap_data) THEN "drawn" ELSE "failed"

\* (mutant) a visualization that recentres the caller's array in place
create_dual_panel_visualization_inplace(data, labels, st, info) ==
    [err |-> "none",
     plot |-> [hull |-> Hull(Masked(data, info.overlap_mask, 1)),
               n_overlap |-> Len(Masked(data, info.overlap_mask, 1)),
               saved |-> TRUE],
     data |-> [i \in 1..Len(data) |-> <<data[i][1] - data[1][1],
                                        data[i][2] - data[1][2]>>],
     labels |-> labels, stats |-> st, overlap_info |-> info]

\* create_dual_panel_visualization(data, labels, stats, overlap_info): the left
\* panel draws the three ellipses first, then the right panel the overlap
\* points, the hull and the ellipses again, then the axis limits and savefig
create_dual_panel_visualization(data, labels, st, info) ==
    LET overlap_data == Masked(data, info.overlap_mask, 1)
        e == IF EllipsesErr(st) /= "none" THEN EllipsesErr(st)
             ELSE IF Len(data) = 0
             THEN \* all_data[:, 0].max() of an empty array
                  "ValueError"
             ELSE "none"
    IN  [err |-> e,
         plot |-> IF e /= "none" THEN NoValue
                  ELSE [hull |-> Hull(overlap_data),
                        n_overlap |-> Len(overlap_data),
                        saved |-> TRUE],
         data |-> data, labels |-> labels, stats |-> st, overlap_info |-> info]

\* print_statistics(stats, overlap_info, total_points): it formats and prints
\* entries of the two dicts (NaN prints as "nan") and returns None
print_statistics(st, info, total_points) ==
    [err |-> IF \E i \in GroupIdx : GroupNames[i] \notin DOMAIN st
             THEN "KeyError" ELSE "none",
     stats |-> st, overlap_info |-> info]

---------------------------------------------------------------------------
(* The callers: a process that calls the three functions, as main.py does and
   as a program importing the modules may.  An exception is not caught
   (main.py catches none): it unwinds the caller, whose variables are gone,
   and ends the process. *)

AllGroups == {GroupNames[i] : i \in GroupIdx}

\* the fractions (over ThresholdDen) a caller may ask for
Fractions == {0, 20, 50, 99}

NoCall ==
    [op |-> "none", n |-> 0, seed |-> 0, moved |-> FALSE,
     data |-> <<>>, labels |-> <<>>, comps |-> {}, kwargs |-> <<>>,
     raised_at |-> 0]

Init ==
    /\ rng \in 0..(RngModulus - 1)      \* seeded from the system at import
    /\ dataset = NoValue
    /\ stats = NoValue
    /\ call = NoCall
    /\ ret = NoValue
    /\ err = "none"
    /\ ref = NoValue
    /\ threads = <<>>
    /\ cli = NoValue
    /\ overlap_info = NoValue
    /\ plot = NoValue

\* other code of the process draws from numpy.random
RandomDraw ==
    /\ err = "none"
    /\ rng' = RngNext(rng)
    /\ UNCHANGED <<dataset, stats, call, ret, err, ref, threads, cli,
                   overlap_info, plot>>

\* dataset = generate_gaussian_dataset(n=n, seed=seed)       (main.py line 69),
\* the first statement of a run of main, whose stats is not bound yet;
\* remember says whether ref remembers this call (it remembers one call)
Generate(n, seed, remember) ==
    LET r == generate_gaussian_dataset(n, seed, rng)
    IN  /\ err = "none"
        /\ call' = [NoCall EXCEPT !.op = "generate", !.n = n, !.seed = seed,
                                  !.moved = (ref /= NoValue /\ ref.rng /= rng),
                                  !.raised_at = IF r.err = "none" THEN 0
                                                ELSE GenRaisesAt(n)]
        /\ rng' = r.rng
        /\ ret' = r.ret
        /\ err' = r.err
        /\ dataset' = r.ret
        /\ ref' = IF remember /\ ref = NoValue /\ r.err = "none"
                  THEN [n |-> n, seed |-> seed, ret |-> r.ret, rng |-> r.rng]
                  ELSE ref
        /\ stats' = NoValue
        /\ overlap_info' = NoValue
        /\ plot' = NoValue
        /\ UNCHANGED <<threads, cli>>

\* stats = calculate_statistics(data, labels, params)        (main.py line 78)
CalculateStatistics ==
    /\ err = "none"
    /\ dataset /= NoValue
    /\ LET r == calculate_statistics(dataset.data, dataset.labels, dataset.params)
       IN  /\ call' = [NoCall EXCEPT !.op = "statistics", !.data = dataset.data,
                                     !.labels = dataset.labels]
           /\ ret' = r
           /\ err' = "none"
           /\ stats' = r
    /\ UNCHANGED <<rng, dataset, ref, threads, cli, overlap_info, plot>>

\* the indices of the points whose group is in groups, in order
RECURSIVE KeepGroups(_, _, _)
KeepGroups(labels, groups, i) ==
    IF i > Len(labels) THEN <<>>
    ELSE (IF labels[i] \in groups THEN <<i>> ELSE <<>>)
         \o KeepGroups(labels, groups, i + 1)

\* overlap_info = detect_overlap_region(data, labels, stats) (main.py line 85),
\* or a direct call: on the points of the groups in groups only, with the
\* reference point added as a sample of group extra (0: not added), with the
\* stats of the components in comps only, with the keyword arguments kwargs
Detect(groups, extra, comps, kwargs) ==
    /\ err = "none"
    /\ dataset /= NoValue
    /\ stats /= NoValue
    /\ LET idx == KeepGroups(dataset.labels, groups, 1)
           more == IF extra = 0 THEN <<>> ELSE <<extra>>
           data == [j \in 1..Len(idx) |-> dataset.data[idx[j]]]
                   \o [j \in 1..Len(more) |-> CenterPoint(stats)]
           labels == [j \in 1..Len(idx) |-> dataset.labels[idx[j]]] \o more
           st == [g \in comps |-> stats[g]]
           r == detect_overlap_region(data, labels, st, kwargs)
       IN  /\ call' = [NoCall EXCEPT !.op = "detect", !.data = data,
                                     !.labels = labels, !.comps = comps,
                                     !.kwargs = kwargs]
           /\ ret' = r.ret
           /\ err' = r.err
           /\ dataset' = IF r.err = "none" THEN dataset ELSE NoValue
           /\ stats' = IF r.err = "none" THEN stats ELSE NoValue
           /\ overlap_info' = r.ret
    /\ UNCHANGED <<rng, ref, threads, cli, plot>>

\* the pipeline of main.py and direct calls of its stages
Next ==
    \/ \E n \in Sizes, seed \in Seeds : Generate(n, seed, FALSE)
    \/ CalculateStatistics
    \/ \E groups \in SUBSET GroupIdx, extra \in {0} \cup GroupIdx :
           Detect(groups, extra, AllGroups, <<>>)
    \/ \E comps \in SUBSET AllGroups : Detect(GroupIdx, 0, comps, <<>>)
    \/ \E t \in Fractions : Detect(GroupIdx, 0, AllGroups, <<t>>)

Spec == Init /\ [][Next]_vars

\* the sampler called again and again, among other users of numpy.random
NextSampler ==
    \/ RandomDraw
    \/ \E n \in Sizes, seed \in Seeds :
           \E remember \in (IF ref = NoValue THEN BOOLEAN ELSE {FALSE}) :
               Generate(n, seed, remember)

SpecSampler == Init /\ [][NextSampler]_vars

---------------------------------------------------------------------------
(* main.py: the command line (lines 137-160) and main(n) (lines 45-134) *)

\* n = 10000 when no argument is given
DefaultN == 10000

\* main() calls generate_gaussian_dataset(n=n, seed=42)
MainSeed == 42

\* the population sizes tried on the command line
CliSizes == (-4)..(3 * MaxPerGroup + 2)

\* sys.argv[1:]: nothing, an integer literal, or a word int() refuses
CliArgs ==
    {<<>>} \cup {<<[int |-> TRUE, value |-> n]>> : n \in CliSizes}
           \cup {<<[int |-> FALSE, value |-> 0]>>}

\* (mutant) the requested size passed on as it is
AdjustNone(n) == n

\* if n % 3 != 0: n = (n // 3) * 3, with Python's floor division
Adjust(n) == IF n % 3 /= 0 THEN (n \div 3) * 3 ELSE n

\* the __main__ block up to the call of main(n): int(sys.argv[1]) or the
\* default, the range warning, the adjustment; a word that is no integer
\* prints the usage and ends the process with sys.exit(1)
CliStart(argv) ==
    /\ err = "none"
    /\ cli = NoValue
    /\ call.op = "none"
    /\ IF Len(argv) > 0 /\ ~argv[1].int
       THEN /\ cli' = [parsed |-> FALSE, requested |-> 0, n |-> 0, warned |-> FALSE]
            /\ err' = "SystemExit"
       ELSE LET n == IF Len(argv) > 0 THEN argv[1].value ELSE DefaultN
            IN  /\ cli' = [parsed |-> TRUE, requested |-> n, n |-> Adjust(n),
                           warned |-> (Len(argv) > 0 /\ (n < 100 \/ n > 100000))]
                /\ err' = "none"
    /\ UNCHANGED <<rng, dataset, stats, call, ret, ref, threads, overlap_info, plot>>

\* main(n), first stage (main.py line 69); populations above the bound of the
\* model are not sampled
MainGenerate ==
    /\ cli /= NoValue
    /\ call.op = "none"
    /\ cli.parsed
    /\ cli.n <= 3 * MaxPerGroup
    /\ Generate(cli.n, MainSeed, FALSE)

\* create_dual_panel_visualization(data, labels, stats, overlap_info)
\*                                                           (main.py line 94)
Visualize ==
    /\ err = "none"
    /\ dataset /= NoValue
    /\ stats /= NoValue
    /\ overlap_info /= NoValue
    /\ LET r == create_dual_panel_visualization(dataset.data, dataset.labels,
                                                stats, overlap_info)
           ok == r.err = "none"
       IN  /\ call' = [NoCall EXCEPT !.op = "visualize", !.data = dataset.data,
                                     !.labels = dataset.labels]
           /\ ret' = NoValue
           /\ err' = r.err
           /\ plot' = r.plot
           /\ dataset' = IF ok THEN [dataset EXCEPT !.data = r.data,
                                                    !.labels = r.labels]
                         ELSE NoValue
           /\ stats' = IF ok THEN r.stats ELSE NoValue
           /\ overlap_info' = IF ok THEN r.overlap_info ELSE NoValue
    /\ UNCHANGED <<rng, ref, threads, cli>>

\* print_statistics(stats, overlap_info, len(data))          (main.py line 97)
PrintStatistics ==
    /\ err = "none"
    /\ dataset /= NoValue
    /\ stats /= NoValue
    /\ overlap_info /= NoValue
    /\ plot /= NoValue
    /\ LET r == print_statistics(stats, overlap_info, Len(dataset.data))
           ok == r.err = "none"
       IN  /\ call' = [NoCall EXCEPT !.op = "print", !.n = Len(dataset.data)]
           /\ ret' = NoValue
           /\ err' = r.err
           /\ stats' = IF ok THEN r.stats ELSE NoValue
           /\ overlap_info' = IF ok THEN r.overlap_info ELSE NoValue
           /\ dataset' = IF ok THEN dataset ELSE NoValue
           /\ plot' = IF ok THEN plot ELSE NoValue
    /\ UNCHANGED <<rng, ref, threads, cli>>

\* a run of main.py from the command line, or a program that imports the
\* modules and calls the stages of the pipeline itself
NextMain ==
    \/ \E argv \in CliArgs : CliStart(argv)
    \/ MainGenerate
    \/ \E n \in Sizes : \E seed \in Seeds : cli = NoValue /\ Generate(n, seed, FALSE)
    \/ CalculateStatistics
    \/ Detect(GroupIdx, 0, AllGroups, <<>>)
    \/ Visualize
    \/ PrintStatistics

SpecMain == Init /\ [][NextMain]_vars

---------------------------------------------------------------------------
(* Two analyses in parallel in one process: each thread runs
   generate_gaussian_dataset statement by statement.  numpy.random takes its
   lock for each call, so a call of seed or of multivariate_normal is one step;
   the threads share the one generator state rng. *)

ThreadIds == 1..2

\* the population sizes the sampler draws points for
DrawingSizes == {3 * k : k \in 1..MaxPerGroup}

InitPar ==
    /\ rng \in 0..(RngModulus - 1)
    /\ dataset = NoValue
    /\ stats = NoValue
    /\ call = NoCall
    /\ ret = NoValue
    /\ err = "none"
    /\ ref = NoValue
    /\ cli = NoValue
    /\ overlap_info = NoValue
    /\ plot = NoValue
    /\ threads \in [ThreadIds ->
                      [pc : {"seed"}, n : DrawingSizes, seed : Seeds,
                       drawn : {<<>>}, ret : {NoValue}]]

\* np.random.seed(seed)                                  (line 37)
ThreadSeed(t) ==
    /\ threads[t].pc = "seed"
    /\ rng' = GenStart(threads[t].seed, rng)
    /\ threads' = [threads EXCEPT ![t].pc = "draw"]
    /\ UNCHANGED <<dataset, stats, call, ret, err, ref, cli, overlap_info, plot>>

\* data_group<g> = np.random.multivariate_normal(...)    (lines 69-83), g = 1, 2, 3
ThreadDraw(t) ==
    LET points_per_group == threads[t].n \div 3
        g == Len(threads[t].drawn) + 1
        group_name == GroupNames[g]
        data_group == MvnPoints(params[group_name].mean, params[group_name].cov,
                                points_per_group, rng)
    IN  /\ threads[t].pc = "draw"
        /\ rng' = MvnState(points_per_group, rng)
        /\ threads' = [threads EXCEPT ![t].drawn = @ \o <<data_group>>,
                                      ![t].pc = IF g = 3 THEN "return" ELSE "draw"]
        /\ UNCHANGED <<dataset, stats, call, ret, err, ref, cli, overlap_info, plot>>

\* np.vstack, the labels and the return                  (lines 86-94)
ThreadReturn(t) ==
    LET points_per_group == threads[t].n \div 3
    IN  /\ threads[t].pc = "return"
        /\ threads' = [threads EXCEPT
               ![t].pc = "done",
               ![t].ret = [data |-> threads[t].drawn[1] \o threads[t].drawn[2]
                                       \o threads[t].drawn[3],
                           labels |-> GenLabels(points_per_group),
                           params |-> params,
                           n_per_group |-> points_per_group]]
        /\ UNCHANGED <<rng, dataset, stats, call, ret, err, ref, cli,
                       overlap_info, plot>>

NextPar == \E t \in ThreadIds : ThreadSeed(t) \/ ThreadDraw(t) \/ ThreadReturn(t)

SpecPar == InitPar /\ [][NextPar]_vars

---------------------------------------------------------------------------
(* The properties *)

\* the last call was op and it returned
Returned(op) == call.op = op /\ err = "none"

\* the minimum over the three components of the density at x, from the
\* distribution parameters
MinDensity(x) ==
    LET ds == {Pdf(x, params[g].mean, params[g].cov) : g \in AllGroups}
    IN  CHOOSE d \in ds : \A e \in ds : d <= e

\* the centroid of the three true means
Centroid ==
    << RoundDiv(params["Group 1"].mean[1] + params["Group 2"].mean[1]
                    + params["Group 3"].mean[1], 3),
       RoundDiv(params["Group 1"].mean[2] + params["Group 2"].mean[2]
                    + params["Group 3"].mean[2], 3) >>

\* the distribution parameters in the shape of stats
params_as_stats ==
    [g \in AllGroups |-> [true_mean |-> params[g].mean, true_cov |-> params[g].cov]]

\* 0.20 times the minimum density at the centroid
RefThreshold == RoundDiv(ThresholdNum * MinDensity(Centroid), ThresholdDen)

\* C1: when detect_overlap_region returns, a point of its input is marked
\* overlap if and only if its minimum density over the three components is
\* strictly greater than 0.20 times the minimum density at the centroid of the
\* true means; a point whose minimum density equals that threshold is not marked.
C1_OverlapIffAboveThreshold ==
    Returned("detect") =>
        /\ ret.threshold = RefThreshold
        /\ Len(ret.overlap_mask) = Len(call.data)
        /\ \A i \in 1..Len(call.data) :
               /\ ret.overlap_mask[i] <=> (MinDensity(call.data[i]) > RefThreshold)
               /\ MinDensity(call.data[i]) = RefThreshold => ~ret.overlap_mask[i]

\* a result with a point above the threshold, a point below it and a tie
C1_Witness ==
    /\ Returned("detect")
    /\ \E i, j, k \in 1..Len(call.data) :
           /\ MinDensity(call.data[i]) = RefThreshold /\ ~ret.overlap_mask[i]
           /\ MinDensity(call.data[j]) > RefThreshold /\ ret.overlap_mask[j]
           /\ MinDensity(call.data[k]) < RefThreshold /\ ~ret.overlap_mask[k]

\* the vectors sqrt(cov) * z the sampler can add to a mean
Offsets ==
    {Transform(<<0, 0>>, shared_cov, StdNormal[k]) : k \in 1..Len(StdNormal)}

\* C2: when the sampler accepts a population size n it returns 3 * (n // 3)
\* points and as many labels, every label is one of the groups 1, 2, 3, each
\* label occurs n // 3 times, the labels are in component order, and each
\* point is a draw around the mean of the component its label names.
C2_Conservation ==
    Returned("generate") =>
        LET k == call.n \div 3
        IN  /\ Len(ret.data) = 3 * k
            /\ Len(ret.labels) = Len(ret.data)
            /\ ret.n_per_group = k
            /\ \A i \in 1..Len(ret.labels) : ret.labels[i] \in GroupIdx
            /\ \A g \in GroupIdx :
                   Cardinality({i \in 1..Len(ret.labels) : ret.labels[i] = g}) = k
            /\ \A i \in 1..Len(ret.labels) : ret.labels[i] = ((i - 1) \div k) + 1
            /\ \A i \in 1..Len(ret.data) :
                   LET mean == params[GroupNames[ret.labels[i]]].mean
                   IN  <<ret.data[i][1] - mean[1], ret.data[i][2] - mean[2]>>
                           \in Offsets

\* a dataset of two points or more in each group
C2_Witness ==
    /\ Returned("generate")
    /\ ret.n_per_group >= 2
    /\ Len(ret.data) = 3 * ret.n_per_group

\* C3: a call of the sampler with the population size and the seed of an
\* earlier call that returned returns too, with the same points and the same
\* labels, whatever was drawn from numpy.random before or between the two.
C3_Determinism ==
    (call.op = "generate" /\ ref /= NoValue
        /\ call.n = ref.n /\ call.seed = ref.seed) =>
        /\ err = "none"
        /\ ret.data = ref.ret.data
        /\ ret.labels = ref.ret.labels

\* a repeated call that started from another generator state than the first
\* call left, and returned points
C3_Witness ==
    /\ call.op = "generate" /\ ref /= NoValue
    /\ call.n = ref.n /\ call.seed = ref.seed
    /\ call.moved
    /\ err = "none" /\ Len(ret.data) > 0

\* C4: with two analyses in parallel, under every interleaving of their steps
\* each sampler invocation returns the output its own size and seed determine
\* (the output of the invocation run alone).
C4_ParallelDeterminism ==
    \A t \in ThreadIds :
        threads[t].pc = "done" =>
            threads[t].ret =
                generate_gaussian_dataset(threads[t].n, threads[t].seed, 0).ret

\* C8: the sampler fails with a ValueError (the InvalidArgument condition) and
\* returns no dataset whenever points_per_group = n // 3 is <= 0.
C8_NonPositiveRejected ==
    (call.op = "generate" /\ call.n \div 3 <= 0) =>
        (err = "ValueError" /\ ret = NoValue)

\* the number of points of data marked overlap with the fraction t / ThresholdDen
CountAt(data, t) ==
    Cardinality({i \in 1..Len(data) :
        InOverlap(MinPdf(data[i], params_as_stats),
                  ThresholdAt(t, MinPdf(Centroid, params_as_stats)))})

C6_ReferencePointOverlaps ==
    Returned("detect") =>
        /\ ret.center_point = Centroid
        /\ \A i \in 1..Len(call.data) :
               call.data[i] = ret.center_point => ret.overlap_mask[i]
        /\ \A t \in Fractions :
               t < ThresholdDen =>
                   InOverlap(ret.center_min_pdf, ThresholdAt(t, ret.center_min_pdf))

\* a result for an input that holds the reference point, marked overlap
C6_Witness ==
    /\ Returned("detect")
    /\ \E i \in 1..Len(call.data) :
           call.data[i] = ret.center_point /\ ret.overlap_mask[i]

\* C7: a call of the detector with an empty component set fails (the lookup
\* of the first group raises KeyError, the invalid-argument condition of the
\* call) and returns no result.
C7_EmptyComponentsFail ==
    (call.op = "detect" /\ call.comps = {}) =>
        (err = "KeyError" /\ ret = NoValue)

\* the detector called with no component, on a dataset with points
C7_Witness ==
    /\ call.op = "detect" /\ call.comps = {}
    /\ Len(call.data) > 0
    /\ err = "KeyError"

\* the number of points of the last call's input that carry label g
PartitionSize(g) == Cardinality({i \in 1..Len(call.labels) : call.labels[i] = g})

\* C9: the statistics calculator fails (InsufficientData) and returns no
\* statistics when a group has fewer than 2 points.
C9_InsufficientDataFails ==
    (call.op = "statistics" /\ \E g \in GroupIdx : PartitionSize(g) < 2) =>
        (err /= "none" /\ ret = NoValue)

\* the points of the last call's input marked overlap that carry label g
MarkedIn(g) ==
    {i \in 1..Len(call.labels) : call.labels[i] = g /\ ret.overlap_mask[i]}

\* the counts of the result: the total is the number of marked points, a
\* group's count the number of its marked points, and the counts sum to the total
CountsRight ==
    /\ ret.total_overlap_count =
           Cardinality({i \in 1..Len(call.data) : ret.overlap_mask[i]})
    /\ \A g \in GroupIdx :
           ret.group_overlap_counts[GroupNames[g]].count = Cardinality(MarkedIn(g))
    /\ (\A i \in 1..Len(call.labels) : call.labels[i] \in GroupIdx) =>
           ret.group_overlap_counts["Group 1"].count
               + ret.group_overlap_counts["Group 2"].count
               + ret.group_overlap_counts["Group 3"].count
           = ret.total_overlap_count

\* C10, as the claim states it: the counts are right and every group's ratio
\* is its count over the size of its partition and lies between 0 and 100
\* percent.
C10_EveryRatioInRange ==
    Returned("detect") =>
        /\ CountsRight
        /\ \A g \in GroupIdx :
               LET pct == ret.group_overlap_counts[GroupNames[g]].percentage
               IN  /\ ~IsNan(pct)
                   /\ pct[1] * PartitionSize(g) \in
                          (10000 * Cardinality(MarkedIn(g)) - PartitionSize(g))
                          ..(10000 * Cardinality(MarkedIn(g)) + PartitionSize(g))
                   /\ 0 <= pct[1] /\ pct[1] <= 10000

\* C10, amended: the counts are right; the ratio of a group that has a point
\* is its count over the size of its partition (to the rounding of the grid)
\* and lies between 0 and 100 percent; the ratio of a group that has no point
\* is NaN.
C10_Aggregates ==
    Returned("detect") =>
        /\ CountsRight
        /\ \A g \in GroupIdx :
               LET pct == ret.group_overlap_counts[GroupNames[g]].percentage
               IN  IF PartitionSize(g) = 0
                   THEN IsNan(pct)
                   ELSE /\ ~IsNan(pct)
                        /\ pct[1] * PartitionSize(g) \in
                               (10000 * Cardinality(MarkedIn(g)) - PartitionSize(g))
                               ..(10000 * Cardinality(MarkedIn(g)) + PartitionSize(g))
                        /\ 0 <= pct[1] /\ pct[1] <= 10000

\* a result with a group of which some points are marked and some are not,
\* and a group that has no point
C10_Witness ==
    /\ Returned("detect")
    /\ \E g, h \in GroupIdx :
           /\ 0 < Cardinality(MarkedIn(g))
           /\ Cardinality(MarkedIn(g)) < PartitionSize(g)
           /\ PartitionSize(h) = 0
           /\ IsNan(ret.group_overlap_counts[GroupNames[h]].percentage)

\* the points of the last call's input that the detector marks: those whose
\* minimum density is above the threshold
Marked == {i \in 1..Len(call.data) : MinDensity(call.data[i]) > RefThreshold}

\* C11: a degenerate outcome is no error: when 0, 1 or 2 points of the input
\* are overlap points, detect_overlap_region returns a result with that
\* overlap count, and create_dual_panel_visualization completes without
\* attempting the convex hull; neither stage raises.
C11_DegenerateOutcomesComplete ==
    /\ (call.op = "detect" /\ call.kwargs = <<>> /\ call.comps = AllGroups
            /\ Cardinality(Marked) <= 2) =>
           /\ err = "none"
           /\ ret.total_overlap_count = Cardinality(Marked)
    /\ (call.op = "visualize" /\ Cardinality(Marked) <= 2) =>
           /\ err = "none"
           /\ plot.hull = "skipped"
           /\ plot.saved

\* the stages of the pipeline that come after the sampler, and the reporters
LaterStages == {"statistics", "detect", "visualize", "print"}
ReporterStages == {"visualize", "print"}

\* C12: a stage after the sampler that returns leaves the point set, the labels
\* and the distribution parameters as they were, and a reporter stage
\* (create_dual_panel_visualization, print_statistics) also leaves the
\* statistics and the overlap result as they were.
C12_LaterStagesKeepInputs ==
    [][(call'.op \in LaterStages /\ err' = "none") =>
          /\ dataset'.data = dataset.data
          /\ dataset'.labels = dataset.labels
          /\ dataset'.params = dataset.params
          /\ call'.op \in ReporterStages =>
                 (stats' = stats /\ overlap_info' = overlap_info)]_vars

\* the whole pipeline has run on a population that has points: the last stage
\* has returned, the figure is saved, and the sampler's output is still there
C12_Witness ==
    /\ Returned("print")
    /\ plot /= NoValue
    /\ plot.saved
    /\ Len(dataset.data) > 0
    /\ stats /= NoValue
    /\ overlap_info /= NoValue

\* what C13 says of a state: on a command-line run the size passed on is the
\* largest multiple of 3 that is at most the size requested, the sampler is
\* called with it and its divisibility check does not raise; a call of the
\* sampler with a size not divisible by 3 ends in the ValueError of that check
\* with no point drawn
CliRoundsDown ==
    /\ (cli /= NoValue /\ cli.parsed) =>
           /\ cli.n % 3 = 0
           /\ cli.n <= cli.requested
           /\ cli.requested < cli.n + 3
           /\ GenRaisesAt(cli.n) /= 35
           /\ call.op = "generate" => (call.n = cli.n /\ call.raised_at /= 35)
    /\ (call.op = "generate" /\ call.n % 3 /= 0) =>
           /\ err = "ValueError"
           /\ call.raised_at = 35
           /\ ret = NoValue
           /\ dataset = NoValue

\* C13: for every integer size on the command line and for the default, the
\* size passed to the pipeline is the largest multiple of 3 not above the size
\* requested, so the divisibility ValueError is never raised on a command-line
\* run; a direct call with n not divisible by 3 raises it, and the step that
\* raises it leaves the random generator as it was: not seeded, no point drawn.
C13_CliNeverTripsDivisibility ==
    /\ []CliRoundsDown
    /\ [][call'.raised_at = 35 => rng' = rng]_vars

\* a command-line run with a size not divisible by 3 whose sampler returned
\* the points of the adjusted size
C13_Witness ==
    /\ cli /= NoValue
    /\ cli.parsed
    /\ cli.requested % 3 /= 0
    /\ Returned("generate")
    /\ call.n = cli.n
    /\ Len(ret.data) = cli.n
    /\ cli.n > 0

============================================================================
